---- MODULE Spec2Model ----
(***************************************************************************)
(* hapolicy::glob -- the pattern matcher of src/src/glob/mod.rs.           *)
(*                                                                         *)
(* A Rust &str is modelled as what it is: a sequence of UTF-8 bytes.  A    *)
(* byte is written as a short TLA+ string: "a", "*" and "/" are the ASCII  *)
(* bytes of those characters, and "c3", "a9" are the lead and the          *)
(* continuation byte of the two-byte character U+00E9.  len() counts       *)
(* bytes, chars().nth(0) decodes the first character, and &s[1..] is a     *)
(* byte slice, which panics when byte offset 1 is inside a character.      *)
(*                                                                         *)
(* The three functions are pure; a call's outcome is "true", "false" or    *)
(* "panic" (the thread unwinds and the call returns nothing).              *)
(***************************************************************************)
EXTENDS Naturals, Sequences, FiniteSets, TLC

VARIABLES fn, pattern, candidate, sep, result, pc

vars == <<fn, pattern, candidate, sep, result, pc>>

----------------------------------------------------------------------------
(* Bounds of the inputs. *)

\* longest pattern / candidate string handed to matches, in characters
MaxLen == 3
\* longest pattern / candidate segment handed to matches_glob, in characters
MaxGlobLen == 4
\* longest pattern segment sequence handed to matches_segments
MaxPatSegs == 3
\* longest candidate segment sequence handed to matches_segments
MaxCandSegs == 3

----------------------------------------------------------------------------
(* Strings. *)

\* the characters inputs are built from, each as its UTF-8 encoding
Alphabet == {<<"a">>, <<"*">>, <<"/">>, <<"c3", "a9">>}

\* a UTF-8 continuation byte (0b10xxxxxx)
IsContinuationByte(b) == b = "a9"

\* the encoded length of the character a lead byte starts
Utf8Width(b) == IF b = "c3" THEN 2 ELSE 1

RECURSIVE StrsOfLen(_)
\* every string of exactly n characters
StrsOfLen(n) ==
  IF n = 0 THEN {<<>>}
  ELSE {c \o s : c \in Alphabet, s \in StrsOfLen(n - 1)}

\* every string of at most n characters
Strs(n) == UNION {StrsOfLen(k) : k \in 0..n}

\* str::chars().nth(0).unwrap() on a non-empty string
first_char(s) == SubSeq(s, 1, Utf8Width(s[1]))

\* str::is_char_boundary(1) on a non-empty string: &s[1..] panics without it
slice1_ok(s) == Len(s) = 1 \/ ~IsContinuationByte(s[2])

\* &s[1..] where slice1_ok(s)
slice1(s) == Tail(s)

\* str::contains("*")
contains_star(s) == \E i \in 1..Len(s) : s[i] = "*"

\* s.starts_with(t)
starts_with(s, t) == Len(t) <= Len(s) /\ SubSeq(s, 1, Len(t)) = t

RECURSIVE split(_, _)
\* str::split(sep).collect() for a non-empty sep: the pieces between the
\* non-overlapping occurrences of sep found left to right, empty pieces kept
split(s, t) ==
  LET hits == {i \in 1..Len(s) : starts_with(SubSeq(s, i, Len(s)), t)}
  IN  IF hits = {} THEN <<s>>
      ELSE LET i == CHOOSE h \in hits : \A g \in hits : h <= g
           IN  <<SubSeq(s, 1, i - 1)>> \o split(SubSeq(s, i + Len(t), Len(s)), t)

----------------------------------------------------------------------------
(* Outcomes and Rust's short-circuit operators over them. *)

Outcome(b) == IF b THEN "true" ELSE "false"

\* a || b: b is evaluated only when a is false; a panic in a unwinds
OrElse(a, b) == IF a = "false" THEN b ELSE a

\* a && b: b is evaluated only when a is true; a panic in a unwinds
AndAlso(a, b) == IF a = "true" THEN b ELSE a

----------------------------------------------------------------------------
(* The matchers. *)

RECURSIVE matches_glob(_, _)
matches_glob(p, c) ==
  IF Len(p) = 0 THEN Outcome(Len(c) = 0)
  ELSE IF Len(c) = 0 THEN Outcome(p = <<"*">>)
  ELSE IF first_char(p) = <<"*">>
    THEN OrElse(IF slice1_ok(p) THEN matches_glob(slice1(p), c) ELSE "panic",
                IF slice1_ok(c) THEN matches_glob(p, slice1(c)) ELSE "panic")
  ELSE AndAlso(Outcome(first_char(p) = first_char(c)),
               IF slice1_ok(p) /\ slice1_ok(c)
                 THEN matches_glob(slice1(p), slice1(c))
                 ELSE "panic")

RECURSIVE matches_segments_prefix(_, _)
\* matches_segments, but a pattern that runs out accepts whatever candidate is left
matches_segments_prefix(p, c) ==
  IF Len(p) = 0 THEN "true"
  ELSE IF Len(c) = 0 THEN Outcome(Len(p) = 1 /\ p[1] = <<"*", "*">>)
  ELSE IF p[1] = <<"*", "*">>
    THEN OrElse(matches_segments_prefix(Tail(p), c), matches_segments_prefix(p, Tail(c)))
  ELSE IF contains_star(p[1])
    THEN AndAlso(matches_glob(p[1], c[1]), matches_segments_prefix(Tail(p), Tail(c)))
  ELSE AndAlso(Outcome(p[1] = c[1]), matches_segments_prefix(Tail(p), Tail(c)))

RECURSIVE matches_segments_lose_it(_, _)
\* matches_segments, but "**" never consumes a candidate segment
matches_segments_lose_it(p, c) ==
  IF Len(p) = 0 THEN Outcome(Len(c) = 0)
  ELSE IF Len(c) = 0 THEN Outcome(Len(p) = 1 /\ p[1] = <<"*", "*">>)
  ELSE IF p[1] = <<"*", "*">>
    THEN matches_segments_lose_it(Tail(p), c)
  ELSE IF contains_star(p[1])
    THEN AndAlso(matches_glob(p[1], c[1]), matches_segments_lose_it(Tail(p), Tail(c)))
  ELSE AndAlso(Outcome(p[1] = c[1]), matches_segments_lose_it(Tail(p), Tail(c)))

RECURSIVE matches_segments_partial_marker(_, _)
\* matches_segments, but any segment that starts with "**" is taken for the marker
matches_segments_partial_marker(p, c) ==
  IF Len(p) = 0 THEN Outcome(Len(c) = 0)
  ELSE IF Len(c) = 0 THEN Outcome(Len(p) = 1 /\ p[1] = <<"*", "*">>)
  ELSE IF starts_with(p[1], <<"*", "*">>)
    THEN OrElse(matches_segments_partial_marker(Tail(p), c),
                matches_segments_partial_marker(p, Tail(c)))
  ELSE IF contains_star(p[1])
    THEN AndAlso(matches_glob(p[1], c[1]), matches_segments_partial_marker(Tail(p), Tail(c)))
  ELSE AndAlso(Outcome(p[1] = c[1]), matches_segments_partial_marker(Tail(p), Tail(c)))

RECURSIVE matches_segments(_, _)
matches_segments(p, c) ==
  IF Len(p) = 0 THEN Outcome(Len(c) = 0)
  ELSE IF Len(c) = 0 THEN Outcome(Len(p) = 1 /\ p[1] = <<"*", "*">>)
  ELSE IF p[1] = <<"*", "*">>
    THEN OrElse(matches_segments(Tail(p), c), matches_segments(p, Tail(c)))
  ELSE IF contains_star(p[1])
    THEN AndAlso(matches_glob(p[1], c[1]), matches_segments(Tail(p), Tail(c)))
  ELSE AndAlso(Outcome(p[1] = c[1]), matches_segments(Tail(p), Tail(c)))

\* segments, but the empty pieces of a split are dropped
segments_no_empty(s, t) ==
  IF t = <<>> THEN <<s>> ELSE SelectSeq(split(s, t), LAMBDA x : x # <<>>)

\* the Vec<&str> matches builds from a string
segments(s, t) == IF t = <<>> THEN <<s>> ELSE split(s, t)

matches(p, c, t) == matches_segments(segments(p, t), segments(c, t))

----------------------------------------------------------------------------
(* Calls. *)

\* the separators matches is called with: none, "/", "*", "//"
Separators == {<<>>, <<"/">>, <<"*">>, <<"/", "/">>}

\* the pattern segments matches_segments is called with
PatternSegments ==
  {<<>>, <<"a">>, <<"*">>, <<"*", "*">>, <<"*", "*", "*">>,
   <<"a", "*", "*">>, <<"*", "*", "a">>}

\* the candidate segments matches_segments is called with
CandidateSegments == {<<>>, <<"a">>, <<"a", "a">>, <<"*">>, <<"c3", "a9">>}

RECURSIVE SeqsOfLen(_, _)
SeqsOfLen(S, n) ==
  IF n = 0 THEN {<<>>}
  ELSE {<<x>> \o s : x \in S, s \in SeqsOfLen(S, n - 1)}

SeqsUpTo(S, n) == UNION {SeqsOfLen(S, k) : k \in 0..n}

InitMatches ==
  /\ fn = "matches"
  /\ pattern \in Strs(MaxLen)
  /\ candidate \in Strs(MaxLen)
  /\ sep \in Separators
  /\ result = "none"
  /\ pc = "call"

InitSegments ==
  /\ fn = "matches_segments"
  /\ pattern \in SeqsUpTo(PatternSegments, MaxPatSegs)
  /\ candidate \in SeqsUpTo(CandidateSegments, MaxCandSegs)
  /\ sep = <<>>
  /\ result = "none"
  /\ pc = "call"

InitGlob ==
  /\ fn = "matches_glob"
  /\ pattern \in Strs(MaxGlobLen)
  /\ candidate \in Strs(MaxGlobLen)
  /\ sep = <<>>
  /\ result = "none"
  /\ pc = "call"

Matches ==
  /\ pc = "call" /\ fn = "matches"
  /\ result' = matches(pattern, candidate, sep)
  /\ pc' = "done"
  /\ UNCHANGED <<fn, pattern, candidate, sep>>

MatchesSegments ==
  /\ pc = "call" /\ fn = "matches_segments"
  /\ result' = matches_segments(pattern, candidate)
  /\ pc' = "done"
  /\ UNCHANGED <<fn, pattern, candidate, sep>>

MatchesGlob ==
  /\ pc = "call" /\ fn = "matches_glob"
  /\ result' = matches_glob(pattern, candidate)
  /\ pc' = "done"
  /\ UNCHANGED <<fn, pattern, candidate, sep>>

Init == InitMatches \/ InitSegments \/ InitGlob

Next == Matches \/ MatchesSegments \/ MatchesGlob

Spec == Init /\ [][Next]_vars

NextMatches == Matches

NextSegments == MatchesSegments

NextGlob == MatchesGlob

SpecMatches == InitMatches /\ [][NextMatches]_vars

SpecSegments == InitSegments /\ [][NextSegments]_vars

SpecGlob == InitGlob /\ [][NextGlob]_vars

----------------------------------------------------------------------------
(* Vocabulary of the properties. *)

RECURSIVE Chars(_)
\* the characters of a string, in order (str::chars().collect())
Chars(s) ==
  IF s = <<>> THEN <<>>
  ELSE <<first_char(s)>> \o Chars(SubSeq(s, Utf8Width(s[1]) + 1, Len(s)))

\* cs from its k+1st element on
Drop(cs, k) == SubSeq(cs, k + 1, Len(cs))

\* cs without its last element
Front(cs) == SubSeq(cs, 1, Len(cs) - 1)

RECURSIVE Expands(_, _)
\* the character sequence c is the character sequence p with each '*' replaced,
\* independently, by a run of zero or more characters
Expands(p, c) ==
  IF p = <<>> THEN c = <<>>
  ELSE IF p[1] = <<"*">> THEN \E k \in 0..Len(c) : Expands(Tail(p), Drop(c, k))
  ELSE c # <<>> /\ c[1] = p[1] /\ Expands(Tail(p), Tail(c))

Marker == <<"*", "*">>

\* no segment of the sequence is exactly "**"
NoMarker(segs) == \A i \in 1..Len(segs) : segs[i] # Marker

RECURSIVE Collapse(_)
\* the segment sequence with every run of adjacent "**" segments cut to one "**"
Collapse(segs) ==
  IF Len(segs) < 2 THEN segs
  ELSE IF segs[1] = Marker /\ segs[2] = Marker THEN Collapse(Tail(segs))
  ELSE <<segs[1]>> \o Collapse(Tail(segs))

RECURSIVE Replace(_, _)
\* the character sequence with every '*' replaced by the character r, as a string
Replace(cs, r) ==
  IF cs = <<>> THEN <<>>
  ELSE (IF cs[1] = <<"*">> THEN r ELSE cs[1]) \o Replace(Tail(cs), r)

\* the character r occurs in the string s
Occurs(r, s) == \E i \in 1..Len(Chars(s)) : Chars(s)[i] = r

\* a pattern string as segments: one "**" per '*', one literal segment per other character
UnitsOfPattern(s) ==
  [i \in 1..Len(Chars(s)) |-> IF Chars(s)[i] = <<"*">> THEN Marker ELSE Chars(s)[i]]

\* a candidate string as segments: one segment per character
UnitsOfCandidate(s) == Chars(s)

Returned == pc = "done" /\ result \in {"true", "false"}

----------------------------------------------------------------------------
(* The properties. *)

\* C1: for a pattern segment p that contains '*' and is not exactly "**",
\* matches_glob(p, c) returns true iff c is p with each '*' replaced by a run
\* of zero or more characters.  Stated for the calls that return.
C1_GlobIsWildcardExpansion ==
  (Returned /\ fn = "matches_glob" /\ contains_star(pattern) /\ pattern # Marker)
    => (result = "true" <=> Expands(Chars(pattern), Chars(candidate)))

\* C2: cutting a run of adjacent "**" segments of the pattern to a single "**"
\* does not change the result of matches_segments.  Stated for the calls that
\* return.
C2_MarkerRunIsOneMarker ==
  (Returned /\ fn = "matches_segments"
     /\ matches_segments(Collapse(pattern), candidate) \in {"true", "false"})
    => result = matches_segments(Collapse(pattern), candidate)

\* C3: every call of matches completes and returns true or false.
C3_MatchesIsTotal ==
  (pc = "done" /\ fn = "matches") => result \in {"true", "false"}

\* C4: when neither pattern nor candidate holds a '*', matches is true iff
\* both split into the same number of segments and the segments are pairwise
\* equal, for every separator.
C4_LiteralMatching ==
  (pc = "done" /\ fn = "matches" /\ ~contains_star(pattern) /\ ~contains_star(candidate))
    => LET P == segments(pattern, sep)
           C == segments(candidate, sep)
       IN  result = Outcome(Len(P) = Len(C) /\ \A i \in 1..Len(P) : P[i] = C[i])

\* C4 happens: a literal pattern of several segments, one of them empty, accepted.
C4_Witness ==
  /\ pc = "done" /\ fn = "matches" /\ result = "true"
  /\ ~contains_star(pattern) /\ ~contains_star(candidate)
  /\ Len(segments(pattern, sep)) >= 2
  /\ \E i \in 1..Len(segments(pattern, sep)) : segments(pattern, sep)[i] = <<>>
  /\ \E i \in 1..Len(segments(pattern, sep)) : segments(pattern, sep)[i] # <<>>

\* C5: if Q has no "**" segment and accepts C, then Q followed by one "**"
\* accepts C followed by any further segments T, none included.
C5_TrailingMarkerAbsorbs ==
  (pc = "done" /\ fn = "matches_segments"
     /\ Len(pattern) >= 1 /\ pattern[Len(pattern)] = Marker /\ NoMarker(Front(pattern))
     /\ \E k \in 0..Len(candidate) :
          matches_segments(Front(pattern), SubSeq(candidate, 1, k)) = "true")
    => result = "true"

\* C5 happens: Q with a wildcard segment, and a trailing "**" that absorbed two
\* segments, one of them holding a '*'.
C5_Witness ==
  /\ pc = "done" /\ fn = "matches_segments" /\ result = "true"
  /\ Len(pattern) = 2 /\ pattern[2] = Marker /\ contains_star(pattern[1])
  /\ pattern[1] # Marker
  /\ Len(candidate) = 3 /\ candidate[3] = <<"*">>
  /\ matches_segments(Front(pattern), SubSeq(candidate, 1, 1)) = "true"

\* C5 happens with nothing to absorb: the candidate ends where the "**" begins.
C5_WitnessZero ==
  /\ pc = "done" /\ fn = "matches_segments" /\ result = "true"
  /\ Len(pattern) = 3 /\ pattern[3] = Marker /\ NoMarker(Front(pattern))
  /\ Len(candidate) = 2

\* C6: a pattern without a "**" segment accepts only candidates of as many
\* segments as it has, whatever wildcards its segments hold.
C6_NoMarkerSameLength ==
  (pc = "done" /\ fn = "matches_segments" /\ NoMarker(pattern) /\ result = "true")
    => Len(candidate) = Len(pattern)

\* C6 happens: a pattern of "***" and another wildcard segment accepted.
C6_Witness ==
  /\ pc = "done" /\ fn = "matches_segments" /\ result = "true"
  /\ NoMarker(pattern) /\ Len(pattern) = 2
  /\ pattern[1] = <<"*", "*", "*">> /\ contains_star(pattern[2])
  /\ candidate[1] # <<>>

\* C7: matches(P, P, sep) is true for every P none of whose segments is "**".
C7_Reflexive ==
  (pc = "done" /\ fn = "matches" /\ candidate = pattern
     /\ NoMarker(segments(pattern, sep)))
    => result = "true"

\* C8: matches("", "", sep) is true; for a non-empty S without '*',
\* matches(S, "", sep) and matches("", S, sep) are false; for every separator.
C8_EmptyStrings ==
  (pc = "done" /\ fn = "matches")
    => /\ (pattern = <<>> /\ candidate = <<>>) => result = "true"
       /\ (pattern # <<>> /\ ~contains_star(pattern) /\ candidate = <<>>)
            => result = "false"
       /\ (pattern = <<>> /\ candidate # <<>> /\ ~contains_star(candidate))
            => result = "false"

\* C8 happens: the non-empty argument is the separator itself.
C8_Witness ==
  /\ pc = "done" /\ fn = "matches" /\ result = "false"
  /\ sep # <<>>
  /\ \/ pattern = sep /\ candidate = <<>>
     \/ pattern = <<>> /\ candidate = sep

\* C9: with a separator free of '*', replacing every '*' of the candidate by
\* one ordinary character that occurs neither in the pattern nor in the
\* separator leaves the result of matches unchanged.
C9_CandidateStarIsLiteral ==
  (pc = "done" /\ fn = "matches" /\ ~contains_star(sep))
    => \A r \in (Alphabet \cup {<<"b">>}) \ {<<"*">>} :
         (~Occurs(r, pattern) /\ ~Occurs(r, sep))
           => matches(pattern, Replace(Chars(candidate), r), sep) = result

\* C10: matches_glob(p, c) equals matches_segments on p and c taken apart into
\* one-character segments, each '*' of p turned into "**".
C10_GlobIsSegmentsOnCharacters ==
  (pc = "done" /\ fn = "matches_glob")
    => result = matches_segments(UnitsOfPattern(pattern), UnitsOfCandidate(candidate))

====
